---------------------------- MODULE Spec2Model ----------------------------
(***************************************************************************)
(* The multiresolution PatchMatch engine of src/analogy.py.                *)
(*                                                                         *)
(* Two images ("A" is `first`, "B" is `second` of NeuralAnalogy.process)   *)
(* each own one Buffer per pyramid depth.  Depth 0 is the coarsest level;  *)
(* the model follows process() over the NumLevels coarsest depths.         *)
(*                                                                         *)
(* Descriptors are modelled with one channel and no padding, where a       *)
(* unit-normalised descriptor is the sign of the feature value, so every   *)
(* dot product is -1 or +1 and 0.5 * (sum of two) is an exact integer.     *)
(* Blend weights are kept in quarters (w = WeightQ / 4).                   *)
(*                                                                         *)
(* The moving average `score` of compute_flow is kept exactly: after i     *)
(* outer iterations score = avg / (cells * 2^i), with avg a signed         *)
(* arbitrary-precision integer (limbs in base 2^10, least significant      *)
(* first).                                                                 *)
(***************************************************************************)
EXTENDS Integers, Sequences, FiniteSets, TLC

\* ------------------------------------------------------------------ bounds
NumLevels == 2
MaxRows == 1
MaxCols == 3
MaxSeed == 2

\* ------------------------------------------------------- program constants
Iterations == 32
DefaultRadius == 12
PowLimit == 1462495
radii == <<-1, 6, 6, 4, 4>>

Images == {"A", "B"}
Depths == 0 .. (NumLevels - 1)
Other(img) == IF img = "A" THEN "B" ELSE "A"
Radius(d) == IF d + 1 <= Len(radii) THEN radii[d + 1] ELSE radii[Len(radii)]

Min(a, b) == IF a < b THEN a ELSE b
Max(a, b) == IF a > b THEN a ELSE b
Abs(n) == IF n < 0 THEN -n ELSE n

VARIABLES shape, features_orign, weights, patches_repro, indices, scores,
          pc, err, avg, ncalls, log

vars == <<shape, features_orign, weights, patches_repro, indices, scores,
          pc, err, avg, ncalls, log>>

\* ------------------------------------------------------------------ fields
Cells(shp) == (0 .. shp[1] - 1) \X (0 .. shp[2] - 1)
NumCells(shp) == shp[1] * shp[2]
InBounds(vu, shp) == vu[1] >= 0 /\ vu[1] < shp[1] /\ vu[2] >= 0 /\ vu[2] < shp[2]
Clamp(n, size) == Min(size - 1, Max(n, 0))

\* The cell visited at position pos (1-based) of a row-major sweep.
RowMajor(shp, pos) == <<(pos - 1) \div shp[2], (pos - 1) % shp[2]>>
\* range(0, n) when even, range(n-1, -1, -1) otherwise, for both loops.
ScanCell(shp, even, pos) ==
    IF even THEN RowMajor(shp, pos) ELSE RowMajor(shp, NumCells(shp) + 1 - pos)

\* A descriptor divided by its norm: one component, so its sign.
Unit(x) == IF x > 0 THEN 1 ELSE IF x < 0 THEN -1 ELSE 0

\* Buffer.__init__: patches / patches_norm.
patches_orign(img, d, c) == Unit(features_orign[img][d][c])

\* Buffer.__init__: identity coordinates.
IdentityIndices(shp) == [c \in Cells(shp) |-> c]
ZeroScores(shp) == [c \in Cells(shp) |-> 0]

\* ------------------------------------------------------------ patches_score
Half(n) == n \div 2

patches_score(first, d, yx, second, vu) ==
    Half(patches_repro[first][d][yx] * patches_orign(second, d, vu)
         + patches_orign(first, d, yx) * patches_repro[second][d][vu])

\* The field of `first` while one call works on it: its two arrays, and the
\* exception raised, if any (the call then stops where it is).
Field(first, d) == [indices |-> indices[first][d], scores |-> scores[first][d], err |-> "none"]

\* The entry of cell yx in a field, and the field with that entry replaced.
Get(fld, yx) == [vu |-> fld.indices[yx], score |-> fld.scores[yx], err |-> fld.err]
Put(fld, yx, ent) ==
    IF ent = Get(fld, yx) THEN fld
    ELSE [indices |-> [fld.indices EXCEPT ![yx] = ent.vu],
          scores |-> [fld.scores EXCEPT ![yx] = ent.score], err |-> ent.err]

\* Variant: every candidate in bounds is taken, better or not.
AcceptAny(ent, first, d, yx, vu) ==
    IF ent.err # "none" THEN ent
    ELSE IF ~InBounds(vu, shape[Other(first)][d]) THEN [ent EXCEPT !.err = "IndexError"]
    ELSE [ent EXCEPT !.score = patches_score(first, d, yx, Other(first), vu), !.vu = vu]

\* Variant: a better candidate's score is stored without its coordinates.
AcceptScoreOnly(ent, first, d, yx, vu) ==
    IF ent.err # "none" THEN ent
    ELSE IF ~InBounds(vu, shape[Other(first)][d]) THEN [ent EXCEPT !.err = "IndexError"]
    ELSE LET score == patches_score(first, d, yx, Other(first), vu)
         IN  IF score > ent.score THEN [ent EXCEPT !.score = score] ELSE ent

\* Score the candidate vu for cell yx and keep it when strictly better.
\* Reading the opposing banks outside their shape raises IndexError.
Accept(ent, first, d, yx, vu) ==
    IF ent.err # "none" THEN ent
    ELSE IF ~InBounds(vu, shape[Other(first)][d]) THEN [ent EXCEPT !.err = "IndexError"]
    ELSE LET score == patches_score(first, d, yx, Other(first), vu)
         IN  IF score > ent.score THEN [ent EXCEPT !.score = score, !.vu = vu] ELSE ent

\* -------------------------------------------------------- patches_initialize
InitializeVisit(fld, first, d, yx) ==
    IF fld.err # "none" THEN fld
    ELSE IF ~InBounds(fld.indices[yx], shape[Other(first)][d])
    THEN [fld EXCEPT !.err = "IndexError"]
    ELSE [fld EXCEPT !.scores[yx] = patches_score(first, d, yx, Other(first), fld.indices[yx])]

RECURSIVE InitializeFrom(_, _, _, _)
InitializeFrom(fld, first, d, pos) ==
    IF pos > NumCells(shape[first][d]) THEN fld
    ELSE InitializeFrom(InitializeVisit(fld, first, d, RowMajor(shape[first][d], pos)),
                        first, d, pos + 1)

patches_initialize(first, d) == InitializeFrom(Field(first, d), first, d, 1)

\* --------------------------------------------------------- patches_propagate
\* Variant: both scan directions look left and up.
OffsetsForward(even) == << <<0, -1>>, <<-1, 0>> >>

Offsets(even) == << <<0, IF even THEN -1 ELSE 1>>, <<IF even THEN -1 ELSE 1, 0>> >>

\* The neighbour of yx at offset off, clamped into the field.
Neighbour(shp, yx, off) == <<Clamp(yx[1] + off[1], shp[1]), Clamp(yx[2] + off[2], shp[2])>>

PropagateOffset(fld, first, d, yx, off) ==
    IF fld.err # "none" THEN fld
    ELSE LET shp == shape[first][d]
             at  == fld.indices[Neighbour(shp, yx, off)]
             vu  == <<Clamp(at[1] - off[1], shp[1]), Clamp(at[2] - off[2], shp[2])>>
         IN  Put(fld, yx, Accept(Get(fld, yx), first, d, yx, vu))

PropagateVisit(fld, first, d, yx, even) ==
    PropagateOffset(PropagateOffset(fld, first, d, yx, Offsets(even)[1]),
                    first, d, yx, Offsets(even)[2])

RECURSIVE PropagateFrom(_, _, _, _, _)
PropagateFrom(fld, first, d, even, pos) ==
    IF pos > NumCells(shape[first][d]) THEN fld
    ELSE PropagateFrom(PropagateVisit(fld, first, d, ScanCell(shape[first][d], even, pos), even),
                       first, d, even, pos + 1)

patches_propagate(first, d, i) == PropagateFrom(Field(first, d), first, d, i % 2 = 0, 1)

\* ------------------------------------------------------------ patches_search
\* The candidates one repeat can draw: np.random.randint(low, high) draws
\* from low .. high-1.
Candidates(vu, radius, shp) ==
    IF radius > 0
    THEN {Clamp(vu[1] + dv, shp[1]) : dv \in (-radius) .. (radius - 1)}
         \X {Clamp(vu[2] + du, shp[2]) : du \in (-radius) .. (radius - 1)}
    ELSE (0 .. shp[1] - 1) \X (0 .. shp[2] - 1)

SearchRepeat(ent, first, d, yx, radius) ==
    IF ent.err # "none" THEN {ent}
    ELSE {Accept(ent, first, d, yx, vu) : vu \in Candidates(ent.vu, radius, shape[first][d])}

\* Every entry the `times` repeats on cell yx can leave, over all draws.
RECURSIVE SearchVisit(_, _, _, _, _, _)
SearchVisit(ents, first, d, yx, times, radius) ==
    IF times <= 0 THEN ents
    ELSE SearchVisit(UNION {SearchRepeat(e, first, d, yx, radius) : e \in ents},
                     first, d, yx, times - 1, radius)

\* Variant: the repeats on a cell start from the entry of the cell before it.
RECURSIVE SearchFromPrevious(_, _, _, _, _, _)
SearchFromPrevious(flds, first, d, times, radius, pos) ==
    IF pos > NumCells(shape[first][d]) THEN flds
    ELSE LET yx   == RowMajor(shape[first][d], pos)
             prev == RowMajor(shape[first][d], Max(pos - 1, 1))
         IN  SearchFromPrevious(
                 UNION {IF f.err # "none" THEN {f}
                        ELSE {Put(f, yx, e) :
                                 e \in SearchVisit({Get(f, prev)}, first, d, yx, times, radius)} :
                        f \in flds},
                 first, d, times, radius, pos + 1)

\* The cells from position pos on, each on the field the cells before left.
RECURSIVE SearchFrom(_, _, _, _, _, _)
SearchFrom(flds, first, d, times, radius, pos) ==
    IF pos > NumCells(shape[first][d]) THEN flds
    ELSE LET yx == RowMajor(shape[first][d], pos)
         IN  SearchFrom(UNION {IF f.err # "none" THEN {f}
                               ELSE {Put(f, yx, e) :
                                        e \in SearchVisit({Get(f, yx)}, first, d, yx, times, radius)} :
                               f \in flds},
                        first, d, times, radius, pos + 1)

\* Every field one call can leave, over all draws.
patches_search(first, d, times, radius) ==
    SearchFrom({Field(first, d)}, first, d, times, radius, 1)

\* ------------------------------------------------------------- merge_flow
\* scipy.ndimage.zoom(order=0) along an axis of n entries zoomed to 2n: output
\* o reads the input nearest to o * (n-1)/(2n-1), i.e. floor of that + 1/2.
ZoomSrc(o, n) == (2 * o * (n - 1) + (2 * n - 1)) \div (2 * (2 * n - 1))

ZoomedShape(pshp) == <<2 * pshp[1], 2 * pshp[2]>>

\* Variant: the parent's indices are duplicated but not doubled.
ZoomedUndoubled(pind, pshp) ==
    [c \in Cells(ZoomedShape(pshp)) |->
        pind[<<ZoomSrc(c[1], pshp[1]), ZoomSrc(c[2], pshp[2])>>]]

\* zoom(parent.indices * 2, zoom=(2, 2, 1), order=0)
Zoomed(pind, pshp) ==
    [c \in Cells(ZoomedShape(pshp)) |->
        LET src == pind[<<ZoomSrc(c[1], pshp[1]), ZoomSrc(c[2], pshp[2])>>]
        IN  <<src[1] * 2, src[2] * 2>>]

\* features_orign * w + (1 - w) * features_warpd, in quarters, then the
\* patches of it divided by their norm.
Reproduce(this, d, zoomed) ==
    [c \in Cells(shape[this][d]) |->
        Unit(features_orign[this][d][c] * weights[this]
             + (4 - weights[this]) * features_orign[Other(this)][d][zoomed[c]])]

\* Variant: no assertion on the shapes; a child of another shape is skipped.
MergeResultUnchecked(this, d) ==
    LET keep == [indices |-> indices[this][d], repro |-> patches_repro[this][d], err |-> "none"]
    IN  IF d = 0 \/ shape[this][d] # ZoomedShape(shape[this][d - 1]) THEN keep
        ELSE LET zoomed == Zoomed(indices[this][d - 1], shape[this][d - 1])
             IN  IF \E c \in Cells(shape[this][d]) :
                        ~InBounds(zoomed[c], shape[Other(this)][d])
                 THEN [keep EXCEPT !.indices = zoomed, !.err = "IndexError"]
                 ELSE [keep EXCEPT !.indices = zoomed,
                                   !.repro = Reproduce(this, d, zoomed)]

\* What merge_flow(this, parent, other) leaves: the indices and the
\* reproduction bank of `this`, and the exception raised, if any.
MergeResult(this, d) ==
    LET keep == [indices |-> indices[this][d], repro |-> patches_repro[this][d], err |-> "none"]
    IN  IF d = 0 THEN keep
        ELSE LET zoomed == Zoomed(indices[this][d - 1], shape[this][d - 1])
             IN  IF shape[this][d] # ZoomedShape(shape[this][d - 1])
                 THEN [keep EXCEPT !.err = "AssertionError"]
                 ELSE IF \E c \in Cells(shape[this][d]) :
                             ~InBounds(zoomed[c], shape[Other(this)][d])
                 THEN [keep EXCEPT !.indices = zoomed, !.err = "IndexError"]
                 ELSE [keep EXCEPT !.indices = zoomed,
                                   !.repro = Reproduce(this, d, zoomed)]

\* ------------------------------------------- exact arithmetic for `score`
Base == 2 ^ 10
Limb(a, i) == IF i <= Len(a) THEN a[i] ELSE 0

RECURSIVE NatOfInt(_)
NatOfInt(n) == IF n = 0 THEN <<>> ELSE <<n % Base>> \o NatOfInt(n \div Base)

RECURSIVE NatNorm(_)
NatNorm(a) ==
    IF a = <<>> THEN a
    ELSE IF a[Len(a)] = 0 THEN NatNorm(SubSeq(a, 1, Len(a) - 1)) ELSE a

RECURSIVE NatAddFrom(_, _, _, _)
NatAddFrom(a, b, i, carry) ==
    IF i > Len(a) /\ i > Len(b) THEN NatOfInt(carry)
    ELSE LET s == Limb(a, i) + Limb(b, i) + carry
         IN  <<s % Base>> \o NatAddFrom(a, b, i + 1, s \div Base)
NatAdd(a, b) == NatAddFrom(a, b, 1, 0)

\* a - b for a >= b
RECURSIVE NatSubFrom(_, _, _, _)
NatSubFrom(a, b, i, borrow) ==
    IF i > Len(a) THEN <<>>
    ELSE LET s == Limb(a, i) - Limb(b, i) - borrow
         IN  <<s % Base>> \o NatSubFrom(a, b, i + 1, IF s < 0 THEN 1 ELSE 0)
NatSub(a, b) == NatNorm(NatSubFrom(a, b, 1, 0))

\* a * m for a small m
RECURSIVE NatMulFrom(_, _, _, _)
NatMulFrom(a, m, i, carry) ==
    IF i > Len(a) THEN NatOfInt(carry)
    ELSE LET s == a[i] * m + carry
         IN  <<s % Base>> \o NatMulFrom(a, m, i + 1, s \div Base)
NatMul(a, m) == NatNorm(NatMulFrom(a, m, 1, 0))

RECURSIVE NatLessFrom(_, _, _)
NatLessFrom(a, b, i) ==
    IF i = 0 THEN FALSE
    ELSE IF a[i] # b[i] THEN a[i] < b[i] ELSE NatLessFrom(a, b, i - 1)
NatLess(a, b) ==
    IF Len(a) # Len(b) THEN Len(a) < Len(b) ELSE NatLessFrom(a, b, Len(a))

\* n * 2^k
NatShift(n, k) ==
    LET low == NatMul(NatOfInt(n), 2 ^ (k % 10))
    IN  IF low = <<>> THEN low ELSE [j \in 1 .. (k \div 10) |-> 0] \o low

Signed(neg, mag) == [neg |-> neg /\ mag # <<>>, mag |-> mag]
SignedZero == Signed(FALSE, <<>>)
SignedAdd(x, y) ==
    IF x.neg = y.neg THEN Signed(x.neg, NatAdd(x.mag, y.mag))
    ELSE IF NatLess(x.mag, y.mag) THEN Signed(y.neg, NatSub(y.mag, x.mag))
    ELSE Signed(x.neg, NatSub(x.mag, y.mag))

\* ------------------------------------------------------------ compute_flow
RECURSIVE SumScores(_, _, _)
SumScores(sco, shp, pos) ==
    IF pos > NumCells(shp) THEN 0
    ELSE sco[RowMajor(shp, pos)] + SumScores(sco, shp, pos + 1)

\* score = first.scores.mean() * 0.5 + 0.5 * score, at outer iteration i:
\* with score = avg / (cells * 2^i) the new score is
\* (avg + sum * 2^i) / (cells * 2^(i+1)).
NextAvg(old, sum, i) == SignedAdd(old, Signed(sum < 0, NatShift(Abs(sum), i)))

\* math.pow(last / score, 50.0) raises OverflowError when the result leaves
\* the range of a double: |last / score| >= PowLimit with score # 0, and
\* last / score = 2 * old / new.
PowOverflows(old, new) ==
    new.mag # <<>> /\ ~NatLess(NatMul(old.mag, 2), NatMul(new.mag, PowLimit))

\* Variant: the repeats as max(radius, 12) // 2.
SearchTimesMax(radius) == Max(radius, DefaultRadius) \div 2

\* r = first.radius if first.radius > 0 else 12; times = r // 2
SearchTimes(radius) == (IF radius > 0 THEN radius ELSE DefaultRadius) \div 2

\* The engine call outer iteration i makes.
Dispatch(i, radius) ==
    IF i % 2 = 0
    THEN [op |-> "propagate", k |-> i \div 2, times |-> 0, radius |-> 0]
    ELSE [op |-> "search", k |-> 0, times |-> SearchTimes(radius), radius |-> radius]

\* ------------------------------------------------------------------- inputs
\* The feature arrays of one image: depth 0 has the coarsest shape and every
\* finer depth doubles it, plus one row or column when the image size leaves
\* a remainder under the pooling of the feature network.
CoarseShapes == (1 .. MaxRows) \X (1 .. MaxCols)
OddBits == {<<0, 0>>, <<0, 1>>}

RECURSIVE LevelShape(_, _, _)
LevelShape(coarse, odd, d) ==
    IF d = 0 THEN coarse
    ELSE LET up == LevelShape(coarse, odd, d - 1)
         IN  <<2 * up[1] + odd[1], 2 * up[2] + odd[2]>>

\* A feature array: the first `seed` cells in row-major order hold -1, the
\* others +1.
Feature(seed, shp) == [c \in Cells(shp) |-> IF c[1] * shp[2] + c[2] < seed THEN -1 ELSE 1]

\* Buffer.weights, per image, in quarters.
WeightOf(seed) == IF seed % 2 = 0 THEN 3 ELSE 1

NoCall == [op |-> "none", k |-> 0, times |-> 0, radius |-> 0]
Position(stage, depth, first, i, call) ==
    [stage |-> stage, depth |-> depth, first |-> first, i |-> i, op |-> call.op,
     k |-> call.k, times |-> call.times, radius |-> call.radius]
NoCalls == [initialize |-> 0, propagate |-> 0, search |-> 0]

Init ==
    \E coarse \in [Images -> CoarseShapes], odd \in [Images -> OddBits],
       seed \in [Images -> 0 .. MaxSeed] :
        /\ shape = [img \in Images |-> [d \in Depths |-> LevelShape(coarse[img], odd[img], d)]]
        /\ features_orign = [img \in Images |-> [d \in Depths |->
                                Feature(seed[img], LevelShape(coarse[img], odd[img], d))]]
        /\ weights = [img \in Images |-> WeightOf(seed[img])]
        /\ patches_repro = [img \in Images |-> [d \in Depths |->
                                Feature(seed[img], LevelShape(coarse[img], odd[img], d))]]
        /\ indices = [img \in Images |-> [d \in Depths |->
                                IdentityIndices(LevelShape(coarse[img], odd[img], d))]]
        /\ scores = [img \in Images |-> [d \in Depths |->
                                ZeroScores(LevelShape(coarse[img], odd[img], d))]]
        /\ pc = Position("merge", 0, "A", 0, NoCall)
        /\ err = "none"
        /\ avg = SignedZero
        /\ ncalls = NoCalls
        /\ log = <<>>

\* ------------------------------------------------------------------ process
Aborted == [pc EXCEPT !.stage = "aborted"]

\* Variant: the next depth starts when the first flow of a depth returns.
AfterFlowSkipsSecond(first, d) ==
    IF d + 1 < NumLevels THEN Position("merge", d + 1, "A", 0, NoCall)
    ELSE Position("done", d, "B", 0, NoCall)

\* Where process() goes when compute_flow(first, second) returns.
AfterFlow(first, d) ==
    IF first = "A" THEN Position("flow", d, "B", 0, [NoCall EXCEPT !.op = "initialize"])
    ELSE IF d + 1 < NumLevels THEN Position("merge", d + 1, "A", 0, NoCall)
    ELSE Position("done", d, "B", 0, NoCall)

\* Where process() goes when merge_flow(this, parent, other) returns.
AfterMerge(this, d) ==
    IF this = "A" THEN Position("merge", d, "B", 0, NoCall)
    ELSE Position("flow", d, "A", 0, [NoCall EXCEPT !.op = "initialize"])

MergeFlow ==
    /\ pc.stage = "merge"
    /\ LET this == pc.first
           d    == pc.depth
           res  == MergeResult(this, d)
       IN  /\ indices' = [indices EXCEPT ![this][d] = res.indices]
           /\ patches_repro' = [patches_repro EXCEPT ![this][d] = res.repro]
           /\ err' = res.err
           /\ pc' = IF res.err # "none" THEN Aborted ELSE AfterMerge(this, d)
           /\ log' = Append(log, <<"merge_flow", this, d, d - 1>>)
    /\ UNCHANGED <<shape, features_orign, weights, scores, avg, ncalls>>

\* A call of the engine returns (or raises) and leaves the field fld; `then`
\* is the position after the call.
Returned(fld, then) ==
    /\ indices' = [indices EXCEPT ![pc.first][pc.depth] = fld.indices]
    /\ scores' = [scores EXCEPT ![pc.first][pc.depth] = fld.scores]
    /\ err' = fld.err
    /\ pc' = IF fld.err # "none" THEN Aborted ELSE then
    /\ UNCHANGED <<shape, features_orign, weights, patches_repro, avg>>

\* compute_flow up to its loop: patches_initialize, then score = 0.0.
Initialize ==
    /\ pc.stage = "flow" /\ pc.op = "initialize"
    /\ Returned(patches_initialize(pc.first, pc.depth),
                Position("flow", pc.depth, pc.first, 0, Dispatch(0, Radius(pc.depth))))
    /\ ncalls' = [NoCalls EXCEPT !.initialize = 1]
    /\ log' = Append(log, <<"compute_flow", pc.first, pc.depth, -1>>)

Propagate ==
    /\ pc.stage = "flow" /\ pc.op = "propagate"
    /\ Returned(patches_propagate(pc.first, pc.depth, pc.k), [pc EXCEPT !.op = "progress"])
    /\ ncalls' = [ncalls EXCEPT !.propagate = ncalls.propagate + 1]
    /\ UNCHANGED log

Search ==
    /\ pc.stage = "flow" /\ pc.op = "search"
    /\ \E fld \in patches_search(pc.first, pc.depth, pc.times, pc.radius) :
            Returned(fld, [pc EXCEPT !.op = "progress"])
    /\ ncalls' = [ncalls EXCEPT !.search = ncalls.search + 1]
    /\ UNCHANGED log

\* The end of one outer iteration: the moving average and the progress line.
Progress ==
    /\ pc.stage = "flow" /\ pc.op = "progress"
    /\ LET shp  == shape[pc.first][pc.depth]
           new  == NextAvg(avg, SumScores(scores[pc.first][pc.depth], shp, 1), pc.i)
       IN  IF PowOverflows(avg, new)
           THEN /\ err' = "OverflowError"
                /\ pc' = Aborted
                /\ avg' = new
                /\ UNCHANGED log
           ELSE /\ err' = err
                /\ IF pc.i + 1 < Iterations
                   THEN /\ pc' = Position("flow", pc.depth, pc.first, pc.i + 1,
                                          Dispatch(pc.i + 1, Radius(pc.depth)))
                        /\ avg' = new
                        /\ UNCHANGED log
                   ELSE /\ pc' = AfterFlow(pc.first, pc.depth)
                        /\ avg' = SignedZero
                        /\ log' = Append(log, <<"return", pc.first, pc.depth, -1>>)
    /\ UNCHANGED <<shape, features_orign, weights, patches_repro, indices, scores, ncalls>>

Next == MergeFlow \/ Initialize \/ Propagate \/ Search \/ Progress

Spec == Init /\ [][Next]_vars

\* ------------------------------------------------------------------ claims
InFlow(op) == pc.stage = "flow" /\ pc.op = op
Fields == {<<img, d>> : img \in Images, d \in Depths}

\* C1: across every call of patches_propagate and patches_search no entry of
\* scores decreases, and an entry of indices changes only together with a
\* strictly greater score.
C1_ScoresNeverDecrease ==
    [][(InFlow("propagate") \/ InFlow("search")) =>
          \A f \in Fields : \A c \in Cells(shape[f[1]][f[2]]) :
              /\ scores'[f[1]][f[2]][c] >= scores[f[1]][f[2]][c]
              /\ (indices'[f[1]][f[2]][c] # indices[f[1]][f[2]][c]
                    => scores'[f[1]][f[2]][c] > scores[f[1]][f[2]][c])]_vars

\* A search with radius <= 0 has moved cell (0,0) of A's coarsest field to a
\* better match that no propagation candidate reaches.
C1_Witness ==
    /\ InFlow("progress") /\ pc.first = "A" /\ pc.depth = 0 /\ pc.i % 2 = 1
    /\ shape["A"][0] = <<1, 3>>
    /\ indices["A"][0][<<0, 0>>] = <<0, 2>>
    /\ scores["A"][0][<<0, 0>>] = 1

\* compute_flow(img, ...) at depth d has got past patches_initialize.
Initialized(img, d) ==
    /\ \E k \in 1 .. Len(log) : log[k] = <<"compute_flow", img, d, -1>>
    /\ ~(pc.stage = "aborted" /\ pc.op = "initialize" /\ pc.first = img /\ pc.depth = d)

\* C2: once initialize has run on a field, and after every later propagate or
\* search on it, each stored score is the score of the stored index.
C2_StoredScoreIsScoreOfIndex ==
    \A f \in Fields :
        Initialized(f[1], f[2]) =>
            \A c \in Cells(shape[f[1]][f[2]]) :
                /\ InBounds(indices[f[1]][f[2]][c], shape[Other(f[1])][f[2]])
                /\ scores[f[1]][f[2]][c]
                     = patches_score(f[1], f[2], c, Other(f[1]), indices[f[1]][f[2]][c])

\* A search on a finer field moved an entry away from the merged index while
\* a reproduction bank of that depth differs from the original bank.
C2_Witness ==
    /\ InFlow("progress") /\ pc.depth = 1 /\ pc.i % 2 = 1
    /\ \E img \in Images :
          \E c \in Cells(shape[img][1]) :
              patches_repro[img][1][c] # patches_orign(img, 1, c)
    /\ \E c \in Cells(shape[pc.first][1]) :
          indices[pc.first][1][c] # Zoomed(indices[pc.first][0], shape[pc.first][0])[c]

\* C3: every stored index lies within the opposing image's field of the same
\* depth, and no read of the opposing arrays leaves them.
C3_IndicesWithinOpposingField ==
    /\ \A f \in Fields : \A c \in Cells(shape[f[1]][f[2]]) :
          InBounds(indices[f[1]][f[2]][c], shape[Other(f[1])][f[2]])
    /\ err # "IndexError"

\* merge_flow(img, parent, other) has just returned normally at a depth with
\* a parent.
JustMerged(img) ==
    /\ pc.depth > 0
    /\ \/ img = "A" /\ pc.stage = "merge" /\ pc.first = "B"
       \/ img = "B" /\ InFlow("initialize") /\ pc.first = "A"

\* C4: after merge with a parent of shape (H, W) the child field has shape
\* (2H, 2W) and child.indices[y, x] = 2 * parent.indices[y // 2, x // 2].
C4_MergeDoublesParent ==
    \A img \in Images :
        JustMerged(img) =>
            LET d == pc.depth
            IN  /\ shape[img][d] = <<2 * shape[img][d - 1][1], 2 * shape[img][d - 1][2]>>
                /\ \A c \in Cells(shape[img][d]) :
                      indices[img][d][c]
                        = <<2 * indices[img][d - 1][<<c[1] \div 2, c[2] \div 2>>][1],
                            2 * indices[img][d - 1][<<c[1] \div 2, c[2] \div 2>>][2]>>

\* A merge from a parent that is not the identity, whose last column points
\* into the opposing field's first.
C4_Witness ==
    /\ JustMerged("A")
    /\ shape["A"][0] = <<1, 3>>
    /\ indices["A"][0][<<0, 0>>] = <<0, 2>>
    /\ indices["A"][1][<<1, 1>>] = <<0, 4>>

\* C5: merge without a parent changes nothing; merge whose upsampled parent
\* differs in shape from the child fails before it has changed the child;
\* merge whose shapes agree does not fail.
C5_MergeFailsBeforeMutation ==
    [][pc.stage = "merge" =>
          LET this == pc.first
              d    == pc.depth
          IN  IF d = 0
              THEN err' = "none" /\ UNCHANGED <<indices, scores, patches_repro>>
              ELSE IF shape[this][d] # <<2 * shape[this][d - 1][1], 2 * shape[this][d - 1][2]>>
              THEN /\ err' = "AssertionError"
                   /\ pc'.stage = "aborted"
                   /\ UNCHANGED <<indices, scores, patches_repro>>
              ELSE err' = "none" /\ pc'.stage # "aborted"]_vars

\* The merge of B failed on its shape after the merge of A, of a parent that
\* is not the identity, had succeeded.
C5_Witness ==
    /\ err = "AssertionError" /\ pc.first = "B"
    /\ indices["B"][1] = IdentityIndices(shape["B"][1])
    /\ indices["B"][0] # IdentityIndices(shape["B"][0])

\* C6 as stated: every search call gets max(radius, 12) / 2 repeats and the
\* level's radius.
C6_TimesIsMaxOfRadiusAnd12Halved ==
    pc.op = "search" =>
        /\ pc.times = Max(Radius(pc.depth), DefaultRadius) \div 2
        /\ pc.radius = Radius(pc.depth)

\* C6 amended: every search call gets r // 2 repeats, with r the level's
\* radius when that is positive and 12 otherwise, and the level's radius.
C6_TimesIsRadiusOr12Halved ==
    pc.op = "search" =>
        /\ pc.radius = Radius(pc.depth)
        /\ pc.radius > 0 => 2 * pc.times \in {pc.radius - 1, pc.radius}
        /\ pc.radius <= 0 => pc.times = 6

\* A search call with the scheduled radius 6 and three repeats.
C6_Witness == InFlow("search") /\ pc.radius = 6 /\ pc.times = 3

\* The sweep as C7 words it.  The k-th visited cell is the one with k - 1
\* cells before it: above it, or left of it in its row; reversed for odd i.
C7_Before(a, b, even) ==
    IF even THEN a[1] < b[1] \/ (a[1] = b[1] /\ a[2] < b[2])
    ELSE a[1] > b[1] \/ (a[1] = b[1] /\ a[2] > b[2])
C7_Visited(shp, even, k) ==
    CHOOSE c \in Cells(shp) :
        Cardinality({b \in Cells(shp) : C7_Before(b, c, even)}) = k - 1

\* Left then upper neighbour for even i, right then lower for odd i; a
\* neighbour outside the field is the cell itself.
C7_Neighbours(shp, yx, even) ==
    IF even
    THEN << <<yx[1], IF yx[2] > 0 THEN yx[2] - 1 ELSE yx[2]>>,
            <<IF yx[1] > 0 THEN yx[1] - 1 ELSE yx[1], yx[2]>> >>
    ELSE << <<yx[1], IF yx[2] < shp[2] - 1 THEN yx[2] + 1 ELSE yx[2]>>,
            <<IF yx[1] < shp[1] - 1 THEN yx[1] + 1 ELSE yx[1], yx[2]>> >>

\* The neighbour's index moved one step back along the scan, kept in the field.
C7_Candidates(shp, even, left, upper) ==
    LET step == IF even THEN 1 ELSE -1
    IN  << <<Clamp(left[1], shp[1]), Clamp(left[2] + step, shp[2])>>,
           <<Clamp(upper[1] + step, shp[1]), Clamp(upper[2], shp[2])>> >>

C7_Try(fld, first, d, yx, even, n) ==
    IF fld.err # "none" THEN fld
    ELSE LET shp == shape[first][d]
             nbs == C7_Neighbours(shp, yx, even)
             cnd == C7_Candidates(shp, even, fld.indices[nbs[1]], fld.indices[nbs[2]])
         IN  Put(fld, yx, Accept(Get(fld, yx), first, d, yx, cnd[n]))

RECURSIVE C7_Sweep(_, _, _, _, _)
C7_Sweep(fld, first, d, even, k) ==
    IF k > NumCells(shape[first][d]) THEN fld
    ELSE LET yx == C7_Visited(shape[first][d], even, k)
         IN  C7_Sweep(C7_Try(C7_Try(fld, first, d, yx, even, 1), first, d, yx, even, 2),
                      first, d, even, k + 1)

\* C7: a propagate call leaves the field that one in-place sweep leaves:
\* row-major with the left and upper neighbours for an even counter, reverse
\* with the right and lower neighbours for an odd one, neighbours clamped into
\* the field, candidates the neighbour's current index minus the scan offset.
C7_PropagateIsInPlaceSweep ==
    [][InFlow("propagate") =>
          LET res == C7_Sweep(Field(pc.first, pc.depth), pc.first, pc.depth, pc.k % 2 = 0, 1)
          IN  /\ indices'[pc.first][pc.depth] = res.indices
              /\ scores'[pc.first][pc.depth] = res.scores
              /\ err' = res.err]_vars

\* The first forward pass on a finer field moved two cells of one row, the
\* right one to the successor of the index its left neighbour got in this
\* same pass, and not of the index that neighbour had before the pass.
C7_Witness ==
    /\ InFlow("progress") /\ pc.depth = 1 /\ pc.i = 0
    /\ LET shp == shape[pc.first][1]
           was == Zoomed(indices[pc.first][0], shape[pc.first][0])
           now == indices[pc.first][1]
       IN  \E c \in Cells(shp) :
              /\ c[2] > 0
              /\ now[c] # was[c]
              /\ now[<<c[1], c[2] - 1>>] # was[<<c[1], c[2] - 1>>]
              /\ now[c] = <<now[<<c[1], c[2] - 1>>][1],
                            Clamp(now[<<c[1], c[2] - 1>>][2] + 1, shp[2])>>
              /\ now[c] # <<was[<<c[1], c[2] - 1>>][1],
                            Clamp(was[<<c[1], c[2] - 1>>][2] + 1, shp[2])>>
              /\ now[c] # <<Clamp(was[<<Clamp(c[1] - 1, shp[1]), c[2]>>][1] + 1, shp[1]),
                            was[<<Clamp(c[1] - 1, shp[1]), c[2]>>][2]>>

\* compute_flow has left its loop: by returning, or by an exception of the
\* progress line.
C8_LoopLeft ==
    \/ pc.stage = "aborted" /\ pc.op = "progress"
    \/ Len(log) > 0 /\ log[Len(log)][1] = "return"

C9_Call(k) ==
    LET d == (k - 1) \div 6
        s == (k - 1) % 6
    IN  CASE s = 0 -> <<"merge_flow", "A", d, d - 1>>
          [] s = 1 -> <<"merge_flow", "B", d, d - 1>>
          [] s = 2 -> <<"compute_flow", "A", d, -1>>
          [] s = 3 -> <<"return", "A", d, -1>>
          [] s = 4 -> <<"compute_flow", "B", d, -1>>
          [] s = 5 -> <<"return", "B", d, -1>>

\* C9: the calls of a run are, depth by depth from the coarsest, merge for A,
\* merge for B, flow A->B, flow B->A, each ended before the next starts; the
\* parent of a merge is the previous depth, refined in both directions, and
\* is absent at the coarsest depth.
C9_CoarseToFineSchedule ==
    /\ \A k \in 1 .. Len(log) : log[k] = C9_Call(k)
    /\ pc.stage = "merge" => Len(log) = 6 * pc.depth + (IF pc.first = "A" THEN 0 ELSE 1)
    /\ InFlow("initialize") => Len(log) = 6 * pc.depth + (IF pc.first = "A" THEN 2 ELSE 4)
    /\ \A k \in 1 .. Len(log) :
          log[k][1] = "merge_flow" /\ log[k][3] = 0 => log[k][4] = -1

\* A run that went through every depth.
C9_Witness == pc.stage = "done" /\ Len(log) = 6 * NumLevels /\ log[7][4] = 0

\* C10: a step of compute_flow(first, second) changes nothing but first's
\* indices and scores at its depth, and a search call leaves in every cell an
\* entry that the repeats can reach from that cell's own entry alone.
C10_RefineWritesOnlyOwnField ==
    [][pc.stage = "flow" =>
          LET first  == pc.first
              second == Other(pc.first)
              d      == pc.depth
          IN  /\ indices'[second] = indices[second]
              /\ scores'[second] = scores[second]
              /\ UNCHANGED <<patches_repro, features_orign, weights, shape>>
              /\ \A e \in Depths \ {d} :
                    indices'[first][e] = indices[first][e] /\ scores'[first][e] = scores[first][e]
              /\ (pc.op = "search" /\ err' = "none") =>
                    \A yx \in Cells(shape[first][d]) :
                        [vu |-> indices'[first][d][yx], score |-> scores'[first][d][yx],
                         err |-> "none"]
                          \in SearchVisit({Get(Field(first, d), yx)}, first, d, yx,
                                          pc.times, pc.radius)]_vars

\* A search of the flow B->A has moved an entry of B's field while A's field,
\* refined before it, holds entries of its own.
C10_Witness ==
    /\ InFlow("progress") /\ pc.first = "B" /\ pc.depth = 0 /\ pc.i % 2 = 1
    /\ \E c \in Cells(shape["B"][0]) : indices["B"][0][c] # c
    /\ \E c \in Cells(shape["A"][0]) : indices["A"][0][c] # c

=============================================================================
